---- MODULE Spec2Model ----
(***************************************************************************)
(* State-machine model of the agent controller (processMessage loop), the  *)
(* sliding-window RateLimiter, the withRetry executor, the StateManager    *)
(* conversation store and the ToolRegistry.                                *)
(*                                                                         *)
(* JavaScript runs one task at a time: the code between two awaits is one  *)
(* atomic action. Every await is a label of `pc`; the continuation after   *)
(* it is an action of its own, so that continuations of concurrent         *)
(* processMessage calls interleave at the awaits and nowhere else.         *)
(***************************************************************************)
EXTENDS Integers, Sequences, FiniteSets, TLC

(***************************************************************************)
(* Bounds of the model                                                     *)
(***************************************************************************)
NumCalls == 2
MaxIterationsBound == 2
MaxAttemptsBound == 2
MaxRequestsBound == 2
MaxTicks == 1
MaxRegistrations == 1
MaxPolicyAttempts == 3
ConcurrentIterations == 1
ConcurrentRequests == 1
MaxLimiterTicks == 3
MaxStoreTurns == 2
MaxStoreTicks == 1
MaxRegistryCalls == 4

(***************************************************************************)
(* Program constants                                                       *)
(***************************************************************************)
windowMs == 60000
baseDelayMs == 1000
maxDelayMs == 10000

\* The clock is read at multiples of half a window.
TickMs == windowMs \div 2

Calls == 1..NumCalls
SessionIds == {"s1", "s2"}
UserMessages == {"Hi"}

Min(a, b) == IF a < b THEN a ELSE b

RECURSIVE Pow2(_)
Pow2(n) == IF n <= 0 THEN 1 ELSE 2 * Pow2(n - 1)

(***************************************************************************)
(* Content blocks and turns                                                *)
(***************************************************************************)
TextBlock(t) == [type |-> "text", text |-> t]
ToolUseBlock(i, n, inp) == [type |-> "tool_use", id |-> i, name |-> n, input |-> inp]

\* A turn's content is either a plain string or a sequence of blocks.
StringContent(s) == [isString |-> TRUE, str |-> s, blocks |-> <<>>]
BlocksContent(b) == [isString |-> FALSE, str |-> "", blocks |-> b]
Message(r, c) == [role |-> r, content |-> c]

(***************************************************************************)
(* Upstream responses and errors (the black-box RPC)                       *)
(***************************************************************************)
FinalResponse ==
  [stop_reason |-> "end_turn",
   content |-> <<TextBlock("Hello"), TextBlock("Bye")>>]
ToolUseResponse ==
  [stop_reason |-> "tool_use",
   content |-> <<TextBlock("thinking"),
                 ToolUseBlock("tu1", "echo", "x"),
                 ToolUseBlock("tu2", "web_search", "q")>>]
OtherResponse ==
  [stop_reason |-> "max_tokens", content |-> <<TextBlock("partial")>>]
NoResponse == [stop_reason |-> "none", content |-> <<>>]
Responses == {FinalResponse, ToolUseResponse, OtherResponse}

\* An error value: `code` "" and `status` 0 stand for an absent property.
Err(c, s) == [kind |-> "error", code |-> c, status |-> s]
Undefined == [kind |-> "undefined", code |-> "", status |-> 0]
UpstreamErrors == {Err("", 429), Err("", 400)}

isRetryableErrorNo5xx(error) ==
  \/ error.code = "ECONNRESET" \/ error.code = "ETIMEDOUT"
  \/ error.status = 429

isRetryableError(error) ==
  \/ error.code = "ECONNRESET" \/ error.code = "ETIMEDOUT"
  \/ error.status = 429
  \/ (error.status >= 500 /\ error.status < 600)

(***************************************************************************)
(* Tool executors. SearchTool and FileTool catch every fault inside        *)
(* execute and answer success=false; a custom executor registered through  *)
(* the public toolRegistry may also reject.                                *)
(***************************************************************************)
Executor(n, i) == [name |-> n, id |-> i]
SearchTool == Executor("web_search", 1)
FileTool == Executor("write_file", 2)
EchoTool == Executor("echo", 3)
NoExecutor == Executor("", 0)
Payload(k, a) == [key |-> k, arg |-> a]
CustomExecutors == {EchoTool}

\* ToolResult (execution_time_ms is only logged or gauged)
ToolSuccess(d) == [kind |-> "result", success |-> TRUE, data |-> d, error |-> ""]
ToolFailure(e) == [kind |-> "result", success |-> FALSE, data |-> Payload("", ""), error |-> e]
ToolThrow(e) == [kind |-> "throw", success |-> FALSE, data |-> Payload("", ""), error |-> e]

\* What the promise returned by executor.execute(input) can settle to.
\* SearchTool.execute: an input without a query string fails, the simulated
\* search of any other input succeeds. FileTool.execute: an invalid filename
\* fails, a valid one succeeds or fails with the file system's error; neither
\* rejects. A custom executor may do anything.
ExecuteOutcomes(executor, input) ==
  IF executor = SearchTool
  THEN (IF input = "" THEN {ToolFailure("Invalid query parameter")}
        ELSE {ToolSuccess(Payload("results", input))})
  ELSE IF executor = FileTool
  THEN (IF input = ""
        THEN {ToolFailure("Invalid filename or path traversal detected")}
        ELSE {ToolSuccess(Payload("filepath", input)), ToolFailure("EACCES")})
  ELSE {ToolSuccess(Payload("echoed", input)), ToolFailure("denied"),
        ToolThrow("boom")}

\* JSON.stringify of a result payload
JSONStringify(data) == <<"{\"", data.key, "\":\"", data.arg, "\"}">>

(***************************************************************************)
(* Variables                                                               *)
(***************************************************************************)
VARIABLES
  sessions,   \* StateManager.sessions
  tools,      \* ToolRegistry.tools, in insertion order
  requests,   \* RateLimiter.requests
  now,        \* Date.now()
  counters,   \* Metrics.counters
  config,     \* AgentConfig.maxIterations, RATE_LIMIT_PER_MINUTE, MAX_RETRIES
  calls,      \* the processMessage calls: locals and position
  obs,        \* history of each call (observation only)
  registered, \* number of register() calls made after construction
  env,        \* the collaborators: how the caller issues calls, what the
              \* upstream and the tools may answer
  retry,      \* one withRetry(fn, config) call on its own
  caller      \* code that calls RateLimiter, StateManager or ToolRegistry
              \* directly: its acquire() calls and what its calls returned

controller == <<sessions, tools, requests, now, counters, config, calls, obs,
                registered, env>>

vars == <<sessions, tools, requests, now, counters, config, calls, obs,
          registered, env, retry, caller>>

(***************************************************************************)
(* StateManager (conversation-state.ts)                                    *)
(***************************************************************************)
NoSession ==
  [exists |-> FALSE, messages |-> <<>>, created_at |-> 0, updated_at |-> 0,
   metadata |-> ""]

\* create(sessionId, metadata): a new ConversationState replaces whatever the
\* key held. The default metadata {} is "".
create(S, sessionId, metadata, t) ==
  [S EXCEPT ![sessionId] =
     [exists |-> TRUE, messages |-> <<>>, created_at |-> t, updated_at |-> t,
      metadata |-> metadata]]

\* get(sessionId) !== undefined
get(S, sessionId) == S[sessionId].exists

\* Mutant of addMessage: the message goes to every session of the store.
addMessageToAll(S, sessionId, message, t) ==
  [k \in DOMAIN S |->
     IF S[k].exists
     THEN [S[k] EXCEPT !.messages = Append(@, message), !.updated_at = t]
     ELSE S[k]]

\* Mutant of addMessage: the message is put first.
addMessageFirst(S, sessionId, message, t) ==
  [S EXCEPT ![sessionId].messages = <<message>> \o @,
            ![sessionId].updated_at = t]

\* addMessage(sessionId, message) on a session that exists (it throws otherwise)
addMessage(S, sessionId, message, t) ==
  [S EXCEPT ![sessionId].messages = Append(@, message),
            ![sessionId].updated_at = t]

\* addMessage(sessionId, message), lines 32-38: the store afterwards and how
\* the call ended
addMessageOutcome(S, sessionId, message, t) ==
  IF ~get(S, sessionId)
  THEN [sessions |-> S, thrown |-> "Session not found"]
  ELSE [sessions |-> addMessage(S, sessionId, message, t), thrown |-> ""]

\* clear(sessionId)
clear(S, sessionId) == [S EXCEPT ![sessionId] = NoSession]

\* getAllSessions()
getAllSessions(S) == {k \in DOMAIN S : S[k].exists}

(***************************************************************************)
(* ToolRegistry (registry.ts): a Map keyed by the definition's name        *)
(***************************************************************************)
has(T, toolName) == \E i \in DOMAIN T : T[i].name = toolName

\* Mutant of register: the executor is added whatever the registry holds.
registerAppends(T, executor) == Append(T, executor)

\* register, lines 14-17: Map.set keeps the place of a key it already holds
register(T, executor) ==
  IF has(T, executor.name)
  THEN [i \in DOMAIN T |-> IF T[i].name = executor.name THEN executor ELSE T[i]]
  ELSE Append(T, executor)

getExecutor(T, toolName) ==
  IF has(T, toolName)
  THEN T[CHOOSE i \in DOMAIN T : T[i].name = toolName]
  ELSE NoExecutor

getAllDefinitions(T) == [i \in DOMAIN T |-> T[i].name]

(***************************************************************************)
(* Metrics.increment                                                       *)
(***************************************************************************)
ToolNames == {"web_search", "write_file", "echo"}
CounterNames ==
  {"messages_processed", "api_calls", "api_errors", "max_iterations_reached"}
    \cup {"tool_executions." \o n : n \in ToolNames}
    \cup {"tool_errors." \o n : n \in ToolNames}

increment(cnt, name) == [cnt EXCEPT ![name] = @ + 1]

(***************************************************************************)
(* RateLimiter.acquire (rate-limiter.ts), up to its await or its return    *)
(***************************************************************************)
Prune(reqs, t) == SelectSeq(reqs, LAMBDA timestamp : t - timestamp < windowMs)

\* Mutant of acquire: the limit is tested with > instead of >=.
acquireOneTooMany(reqs, t, maxRequests) ==
  LET pruned == Prune(reqs, t)
      oldestDefined == Len(pruned) > 0
      waitTime == IF oldestDefined THEN windowMs - (t - pruned[1]) ELSE 0
  IN IF Len(pruned) > maxRequests /\ oldestDefined /\ waitTime > 0
     THEN [admitted |-> FALSE, requests |-> pruned, waitTime |-> waitTime]
     ELSE [admitted |-> TRUE, requests |-> Append(pruned, t), waitTime |-> 0]

\* Mutant of acquire: the wait is twice the window less the age of the
\* oldest request.
acquireWaitsTooLong(reqs, t, maxRequests) ==
  LET pruned == Prune(reqs, t)
      oldestDefined == Len(pruned) > 0
      waitTime == IF oldestDefined THEN 2 * windowMs - (t - pruned[1]) ELSE 0
  IN IF Len(pruned) >= maxRequests /\ oldestDefined /\ waitTime > 0
     THEN [admitted |-> FALSE, requests |-> pruned, waitTime |-> waitTime]
     ELSE [admitted |-> TRUE, requests |-> Append(pruned, t), waitTime |-> 0]

\* getStats, lines 33-44: it prunes, too
getStats(reqs, t, maxRequests) ==
  [requests |-> Prune(reqs, t),
   stats |-> [current |-> Len(Prune(reqs, t)), max |-> maxRequests,
              window_ms |-> windowMs]]

acquire(reqs, t, maxRequests) ==
  LET pruned == Prune(reqs, t)
      \* requests[0] is undefined on an empty array: waitTime is NaN, and
      \* NaN > 0 is false
      oldestDefined == Len(pruned) > 0
      waitTime == IF oldestDefined THEN windowMs - (t - pruned[1]) ELSE 0
  IN IF Len(pruned) >= maxRequests /\ oldestDefined /\ waitTime > 0
     THEN [admitted |-> FALSE, requests |-> pruned, waitTime |-> waitTime]
     ELSE [admitted |-> TRUE, requests |-> Append(pruned, t), waitTime |-> 0]

(***************************************************************************)
(* withRetry (rate-limiter.ts)                                             *)
(***************************************************************************)
\* config.shouldRetry && !config.shouldRetry(error)
RefusesRetry(shouldRetry, error) ==
  /\ shouldRetry # "absent"
  /\ ~isRetryableError(error)

\* Mutant of recordError: the first error is kept.
recordFirstError(lastError, error) ==
  IF lastError = Undefined THEN error ELSE lastError

\* line 64: lastError = error
recordError(lastError, error) == error

\* line 60: attempt <= config.maxAttempts
AttemptAllowed(attempt, maxAttempts) == attempt <= maxAttempts

\* Mutant of onAttemptFailed: an error that must not be retried is retried.
onAttemptFailedRetriesAll(attempt, maxAttempts, shouldRetry, error) ==
  IF attempt = maxAttempts THEN "break" ELSE "sleep"

\* Mutant of onAttemptFailed: the attempt before the last is taken for the last.
onAttemptFailedOffByOne(attempt, maxAttempts, shouldRetry, error) ==
  IF RefusesRetry(shouldRetry, error) THEN "throw"
  ELSE IF attempt + 1 >= maxAttempts THEN "break"
  ELSE "sleep"

\* The catch block of one failed attempt: "throw" (not retryable), "break"
\* (last attempt: throw lastError after the loop) or "sleep".
onAttemptFailed(attempt, maxAttempts, shouldRetry, error) ==
  IF RefusesRetry(shouldRetry, error) THEN "throw"
  ELSE IF attempt = maxAttempts THEN "break"
  ELSE "sleep"

\* Mutant of backoffDelay: the delay is not capped.
backoffDelayUncapped(attempt, base, cap) == base * Pow2(attempt - 1)

\* lines 77-80: Math.min(baseDelayMs * Math.pow(2, attempt - 1), maxDelayMs)
backoffDelay(attempt, base, cap) == Min(base * Pow2(attempt - 1), cap)

\* Math.random() * 0.3 * delay lies in [0, 0.3 * delay)
Jitters(delay) == {0, (3 * delay) \div 10 - 1}

\* One withRetry(fn, config) call on its own: its policies and its errors
RetryErrors ==
  {Err("ECONNRESET", 0), Err("", 429), Err("", 503), Err("", 400)}

Policies ==
  [maxAttempts : 0..MaxPolicyAttempts,
   baseDelayMs : {baseDelayMs},
   maxDelayMs : {baseDelayMs + baseDelayMs \div 2, maxDelayMs},
   shouldRetry : {"absent", "isRetryableError"}]

\* invoked: the invocations of fn; errors: what they raised, in order;
\* slept: the suspensions after them (observation only)
RetryState(policy) ==
  [pc |-> "ready", policy |-> policy, attempt |-> 0, lastError |-> Undefined,
   result |-> "", error |-> Undefined, invoked |-> 0, errors |-> <<>>,
   slept |-> <<>>]

IdleRetry == RetryState([maxAttempts |-> 0, baseDelayMs |-> 0, maxDelayMs |-> 0,
                         shouldRetry |-> "absent"])

\* Code that calls the components directly:
\*   acquirers  its acquire() calls: position, when issued, the timeouts
\*              requested, when admitted
\*   issued     the acquire() calls in the order they were issued
\*   stats      what the latest getStats() returned
\*   op         the latest StateManager or ToolRegistry call and its outcome
Acquirers == 1..MaxRequestsBound + 1

IdleAcquirer ==
  [pc |-> "idle", issuedAt |-> 0, wakeAt |-> 0, waits |-> <<>>, admittedAt |-> 0]

NoOp == [name |-> "none"]

IdleCaller ==
  [acquirers |-> [a \in Acquirers |-> IdleAcquirer], issued |-> <<>>,
   stats |-> [current |-> 0, max |-> 0, window_ms |-> windowMs], op |-> NoOp]

(***************************************************************************)
(* AgentController (controller.ts)                                         *)
(***************************************************************************)
IdleCall ==
  [pc |-> "idle", sessionId |-> "", userMessage |-> "", iterations |-> 0,
   finalResponse |-> "", response |-> NoResponse, blockIdx |-> 0,
   executor |-> NoExecutor, results |-> <<>>, attempt |-> 0,
   lastError |-> Undefined, wakeAt |-> 0, value |-> "", error |-> Undefined]

\* What has happened in a call so far (observation only):
\*   responses     the upstream responses received, in order
\*   admissions    the timestamps acquire() recorded for the call
\*   upstreamCalls the invocations of client.messages.create
\*   lastFailure   the latest upstream error withRetry caught, and its attempt
\*   dispatched    the tool_use blocks executeTools has reached
\*   executions    the invocations of executor.execute
\*   faults        the executions that settled with a fault
\*   capIncrements the increments of max_iterations_reached
\*   fresh, prior  the session before the call: absent?, its turns
\*   issuedWith    the session's turns when the latest upstream call was issued
\*   sentAt        when each upstream request was sent
\*   settled       the ToolResults the executions resolved with
NoFailure == [error |-> Undefined, attempt |-> 0]

IdleObs ==
  [responses |-> <<>>, admissions |-> 0, upstreamCalls |-> 0,
   lastFailure |-> NoFailure,
   dispatched |-> <<>>, executions |-> <<>>, faults |-> <<>>,
   capIncrements |-> 0, fresh |-> FALSE, prior |-> <<>>, issuedWith |-> <<>>,
   sentAt |-> <<>>, settled |-> <<>>]

ToolResultBlock(id, content, isError) ==
  [type |-> "tool_result", tool_use_id |-> id, content |-> content,
   is_error |-> isError]

\* Mutant of NotFoundBlock: the message does not say which tool is missing.
NotFoundBlockUnnamed(id, name) ==
  ToolResultBlock(id, <<"Error: Tool not found">>, TRUE)

\* lines 164-173: the block pushed for a tool the registry does not hold
NotFoundBlock(id, name) ==
  ToolResultBlock(id, <<"Error: Tool ", name, " not found">>, TRUE)

\* The block pushed for a ToolResult, lines 177-202
ResultBlock(id, result) ==
  IF result.success
  THEN ToolResultBlock(id, JSONStringify(result.data), FALSE)
  ELSE ToolResultBlock(id, <<"Error: ", result.error>>, TRUE)

\* response.content.find(block => block.type === 'text'): its index, or 0
RECURSIVE FindText(_, _)
FindText(content, i) ==
  IF i > Len(content) THEN 0
  ELSE IF content[i].type = "text" THEN i
  ELSE FindText(content, i + 1)

RECURSIVE FindLastText(_, _)
FindLastText(content, i) ==
  IF i < 1 THEN 0
  ELSE IF content[i].type = "text" THEN i
  ELSE FindLastText(content, i - 1)

\* Mutant of ExtractText: the last text block instead of the first.
ExtractTextLast(content, finalResponse) ==
  IF FindLastText(content, Len(content)) > 0
  THEN content[FindLastText(content, Len(content))].text
  ELSE finalResponse

\* lines 64-69
ExtractText(content, finalResponse) ==
  IF FindText(content, 1) > 0 THEN content[FindText(content, 1)].text
  ELSE finalResponse

\* The controller after one atomic stretch of a call.
World(cr, S, reqs, cnt) ==
  [call |-> cr, sessions |-> S, requests |-> reqs, counters |-> cnt,
   admitted |-> FALSE, dispatched |-> <<>>]

ClearLocals(cr) ==
  [cr EXCEPT !.response = NoResponse, !.results = <<>>, !.blockIdx = 0,
             !.executor = NoExecutor, !.attempt = 0, !.lastError = Undefined,
             !.wakeAt = 0]

\* Metrics.increment('max_iterations_reached') under the test of line 108
CountExhaustion(iterations, maxIterations, cnt) ==
  IF iterations >= maxIterations
  THEN increment(cnt, "max_iterations_reached") ELSE cnt

\* lines 108-114: the exhaustion counter and the return
PostLoop(cr, S, reqs, cnt) ==
  World([ClearLocals(cr) EXCEPT !.pc = "returned", !.value = cr.finalResponse],
        S, reqs,
        CountExhaustion(cr.iterations, config.maxIterations, cnt))

\* Mutant of OnUnexpectedStop: the response is appended as an assistant turn.
OnUnexpectedStopAppends(cr, S, reqs, cnt, t) ==
  PostLoop(cr,
           addMessage(S, cr.sessionId,
                      Message("assistant", BlocksContent(cr.response.content)),
                      t),
           reqs, cnt)

\* lines 100-105 and 108-114: a stop reason that is neither end_turn nor
\* tool_use is logged and breaks out of the loop
OnUnexpectedStop(cr, S, reqs, cnt, t) == PostLoop(cr, S, reqs, cnt)

\* line 57
LoopTest(iterations, maxIterations) == iterations < maxIterations

\* lines 57-61 and 117-118: the loop test, iterations++, and callClaude up to
\* the await in acquire
LoopHead(cr, S, reqs, cnt, t) ==
  IF LoopTest(cr.iterations, config.maxIterations)
  THEN LET a == acquire(reqs, t, config.maxRequests)
           cr1 == [ClearLocals(cr) EXCEPT !.iterations = @ + 1]
       IN [World(IF a.admitted
                 THEN [cr1 EXCEPT !.pc = "acquired"]
                 ELSE [cr1 EXCEPT !.pc = "acquire_wait",
                                  !.wakeAt = t + a.waitTime],
                 S, a.requests, cnt)
           EXCEPT !.admitted = a.admitted]
  ELSE PostLoop(cr, S, reqs, cnt)

\* executeTools, lines 155-175: the for loop from block i up to the next
\* await of executor.execute, or to its end. `seen` lists the tool_use blocks
\* reached on the way.
RECURSIVE executeToolsFrom(_, _, _, _, _, _)
executeToolsFrom(content, i, results, T, cnt, seen) ==
  IF i > Len(content)
  THEN [done |-> TRUE, blockIdx |-> i, results |-> results,
        executor |-> NoExecutor, counters |-> cnt, seen |-> seen]
  ELSE IF content[i].type # "tool_use"
  THEN executeToolsFrom(content, i + 1, results, T, cnt, seen)
  ELSE LET name == content[i].name
           cnt1 == increment(cnt, "tool_executions." \o name)
           executor == getExecutor(T, name)
           seen1 == Append(seen, [idx |-> i, id |-> content[i].id, name |-> name,
                                  found |-> executor # NoExecutor])
       IN IF executor = NoExecutor
          THEN executeToolsFrom(content, i + 1,
                                Append(results, NotFoundBlock(content[i].id, name)),
                                T, cnt1, seen1)
          ELSE [done |-> FALSE, blockIdx |-> i, results |-> results,
                executor |-> executor, counters |-> cnt1, seen |-> seen1]

\* Mutant of AppendToolTurns: the tool results before the requests.
AppendToolTurnsSwapped(S, sessionId, content, toolResults, t) ==
  addMessage(
    addMessage(S, sessionId, Message("user", BlocksContent(toolResults)), t),
    sessionId, Message("assistant", BlocksContent(content)), t)

\* Mutant of AppendToolTurns: the tool-result turn is left out.
AppendToolTurnsRequestsOnly(S, sessionId, content, toolResults, t) ==
  addMessage(S, sessionId, Message("assistant", BlocksContent(content)), t)

\* lines 84-94: both turns are appended once executeTools has returned
AppendToolTurns(S, sessionId, content, toolResults, t) ==
  addMessage(
    addMessage(S, sessionId, Message("assistant", BlocksContent(content)), t),
    sessionId, Message("user", BlocksContent(toolResults)), t)

\* Mutant of AfterDispatch: the loop goes on without awaiting the execute.
AfterDispatchUnawaited(cr, d, S, reqs, t) ==
  [LoopHead(cr,
            AppendToolTurns(S, cr.sessionId, cr.response.content, d.results, t),
            reqs, d.counters, t)
   EXCEPT !.dispatched = d.seen]

\* The controller after executeTools has run on from a block: suspended in an
\* execute, or returned, with the turns appended and the loop continued.
AfterDispatch(cr, d, S, reqs, t) ==
  [(IF d.done
    THEN LoopHead(cr,
                  AppendToolTurns(S, cr.sessionId, cr.response.content,
                                  d.results, t),
                  reqs, d.counters, t)
    ELSE World([cr EXCEPT !.pc = "executing", !.blockIdx = d.blockIdx,
                          !.results = d.results, !.executor = d.executor],
               S, reqs, d.counters))
   EXCEPT !.dispatched = d.seen]

\* Mutant of messagesArgument: only the latest turn is passed.
messagesArgumentLatest(S, sessionId) ==
  IF S[sessionId].messages = <<>> THEN <<>>
  ELSE <<S[sessionId].messages[Len(S[sessionId].messages)]>>

\* lines 61 and 129: client.messages.create is passed state.messages, the
\* array addMessage pushes to
messagesArgument(S, sessionId) == S[sessionId].messages

(***************************************************************************)
(* Initial state: the controller as constructed, no call started           *)
(***************************************************************************)
Configs ==
  [maxIterations : 0..MaxIterationsBound,
   maxRequests : 1..MaxRequestsBound,
   maxAttempts : 0..MaxAttemptsBound]

Settled(c) == calls[c].pc \in {"returned", "rejected"}

Constructed ==
  /\ sessions = [k \in SessionIds |-> NoSession]
  /\ tools = <<SearchTool, FileTool>>
  /\ requests = <<>>
  /\ now = 0
  /\ counters = [n \in CounterNames |-> 0]
  /\ calls = [c \in Calls |-> IdleCall]
  /\ obs = [c \in Calls |-> IdleObs]
  /\ registered = 0

\* The caller awaits each processMessage before the next (index.ts, main).
Init ==
  /\ Constructed
  /\ config \in Configs
  /\ env = [concurrent |-> FALSE, responses |-> Responses,
            errors |-> UpstreamErrors]
  /\ retry = IdleRetry
  /\ caller = IdleCaller

\* The history of call c after a step that took the controller to w.
Observe(c, o, w) ==
  [o EXCEPT !.admissions = @ + (IF w.admitted THEN 1 ELSE 0),
            !.capIncrements = @ + (w.counters["max_iterations_reached"]
                                     - counters["max_iterations_reached"]),
            !.dispatched =
               @ \o [k \in DOMAIN w.dispatched |->
                       [iteration |-> calls[c].iterations,
                        idx |-> w.dispatched[k].idx,
                        id |-> w.dispatched[k].id,
                        name |-> w.dispatched[k].name,
                        found |-> w.dispatched[k].found]],
            !.executions =
               IF w.call.pc = "executing"
               THEN Append(@, [iteration |-> w.call.iterations,
                               idx |-> w.call.blockIdx,
                               id |-> w.call.response.content[w.call.blockIdx].id,
                               executor |-> w.call.executor])
               ELSE @]

Commit(c, w, o) ==
  /\ calls' = [calls EXCEPT ![c] = w.call]
  /\ sessions' = w.sessions
  /\ requests' = w.requests
  /\ counters' = w.counters
  /\ obs' = [obs EXCEPT ![c] = Observe(c, o, w)]
  /\ UNCHANGED <<tools, now, config, registered, env, retry, caller>>

\* processMessage, lines 34-61, up to the first await
Start(c, sessionId, userMessage) ==
  /\ calls[c].pc = "idle"
  /\ \A d \in Calls : d < c => calls[d].pc # "idle"
  /\ env.concurrent \/ \A d \in Calls : d # c => calls[d].pc = "idle" \/ Settled(d)
  /\ LET cnt1 == increment(counters, "messages_processed")
         S1 == IF get(sessions, sessionId) THEN sessions
               ELSE create(sessions, sessionId, "", now)
         S2 == addMessage(S1, sessionId,
                          Message("user", StringContent(userMessage)), now)
         cr == [IdleCall EXCEPT !.sessionId = sessionId,
                                !.userMessage = userMessage]
     IN Commit(c, LoopHead(cr, S2, requests, cnt1, now),
               [obs[c] EXCEPT !.fresh = ~get(sessions, sessionId),
                              !.prior = sessions[sessionId].messages])

\* acquire, lines 25-26: the timeout has fired, acquire runs again
Wake(c) ==
  /\ calls[c].pc = "acquire_wait"
  /\ now >= calls[c].wakeAt
  /\ LET a == acquire(requests, now, config.maxRequests)
     IN Commit(c, [World(IF a.admitted
                         THEN [calls[c] EXCEPT !.pc = "acquired", !.wakeAt = 0]
                         ELSE [calls[c] EXCEPT !.wakeAt = now + a.waitTime],
                         sessions, a.requests, counters)
                   EXCEPT !.admitted = a.admitted],
               obs[c])

\* callClaude, lines 119-138, and withRetry, lines 58-62: the first attempt.
\* With maxAttempts < 1 the for loop is not entered and line 87 throws
\* lastError, which is undefined.
AfterAcquire(c) ==
  /\ calls[c].pc = "acquired"
  /\ LET cnt1 == increment(counters, "api_calls")
     IN IF AttemptAllowed(1, config.maxAttempts)
        THEN Commit(c, World([calls[c] EXCEPT !.pc = "inflight", !.attempt = 1],
                             sessions, requests, cnt1),
                    [obs[c] EXCEPT !.upstreamCalls = @ + 1, !.sentAt = Append(@, now),
                                   !.issuedWith = messagesArgument(sessions, calls[c].sessionId)])
        ELSE Commit(c, World([ClearLocals(calls[c]) EXCEPT !.pc = "rejected",
                                                           !.error = Undefined],
                             sessions, requests, increment(cnt1, "api_errors")),
                    obs[c])

\* The upstream call settles with response r: lines 62, 140-144 and 63-106
Respond(c, r) ==
  /\ calls[c].pc = "inflight"
  /\ r \in env.responses
  /\ LET cr == [calls[c] EXCEPT !.response = r]
         o == [obs[c] EXCEPT !.responses = Append(@, r)]
         sid == cr.sessionId
     IN CASE r.stop_reason = "end_turn" ->
               Commit(c, PostLoop([cr EXCEPT !.finalResponse =
                                               ExtractText(r.content, @)],
                                  addMessage(sessions, sid,
                                             Message("assistant",
                                                     BlocksContent(r.content)),
                                             now),
                                  requests, counters), o)
          [] r.stop_reason = "tool_use" ->
               Commit(c, AfterDispatch(cr,
                                       executeToolsFrom(r.content, 1, <<>>, tools,
                                                        counters, <<>>),
                                       sessions, requests, now), o)
          [] OTHER ->
               Commit(c, OnUnexpectedStop(cr, sessions, requests, counters, now),
                      o)

\* The upstream call settles with error e: withRetry lines 63-87 and
\* callClaude lines 145-149
Fail(c, e, jitter) ==
  /\ calls[c].pc = "inflight"
  /\ e \in env.errors
  /\ LET cr == [calls[c] EXCEPT !.lastError = recordError(@, e)]
         o == [obs[c] EXCEPT !.lastFailure = [error |-> e, attempt |-> cr.attempt]]
         delay == backoffDelay(cr.attempt, baseDelayMs, maxDelayMs)
         decision == onAttemptFailed(cr.attempt, config.maxAttempts,
                                     "isRetryableError", e)
     IN /\ jitter \in Jitters(delay)
        /\ IF decision = "sleep"
           THEN Commit(c, World([cr EXCEPT !.pc = "backoff",
                                           !.wakeAt = now + delay + jitter],
                                sessions, requests, counters), o)
           ELSE Commit(c, World([ClearLocals(cr) EXCEPT
                                   !.pc = "rejected",
                                   !.error = IF decision = "throw" THEN e
                                             ELSE cr.lastError],
                                sessions, requests,
                                increment(counters, "api_errors")), o)

\* withRetry, lines 83 and 60-62: the backoff is over; the next attempt, or
\* line 87 when the loop test fails
BackoffWake(c) ==
  /\ calls[c].pc = "backoff"
  /\ now >= calls[c].wakeAt
  /\ IF AttemptAllowed(calls[c].attempt + 1, config.maxAttempts)
     THEN Commit(c, World([calls[c] EXCEPT !.pc = "inflight", !.attempt = @ + 1,
                                           !.wakeAt = 0],
                          sessions, requests, counters),
                 [obs[c] EXCEPT !.upstreamCalls = @ + 1, !.sentAt = Append(@, now),
                                !.issuedWith = messagesArgument(sessions, calls[c].sessionId)])
     ELSE Commit(c, World([ClearLocals(calls[c]) EXCEPT
                             !.pc = "rejected", !.error = calls[c].lastError],
                          sessions, requests, increment(counters, "api_errors")),
                 obs[c])

\* executor.execute settles: executeTools lines 175-206, then lines 84-97.
\* Nothing catches a rejected execute: executeTools and processMessage reject.
ExecSettle(c, result) ==
  /\ calls[c].pc = "executing"
  /\ LET cr == calls[c]
         block == cr.response.content[cr.blockIdx]
         o1 == IF result.kind = "throw" THEN obs[c]
               ELSE [obs[c] EXCEPT !.settled =
                       Append(@, [iteration |-> cr.iterations,
                                  idx |-> cr.blockIdx, result |-> result])]
         o == IF result.kind = "throw" \/ ~result.success
              THEN [o1 EXCEPT !.faults =
                      Append(@, [iteration |-> cr.iterations, id |-> block.id,
                                 name |-> block.name, kind |-> result.kind,
                                 error |-> result.error])]
              ELSE o1
     IN /\ result \in ExecuteOutcomes(cr.executor, block.input)
        /\ IF result.kind = "throw"
           THEN Commit(c, World([ClearLocals(cr) EXCEPT
                                   !.pc = "rejected",
                                   !.error = Err(result.error, 0)],
                                sessions, requests, counters), o)
           ELSE Commit(c, AfterDispatch(cr,
                            executeToolsFrom(cr.response.content, cr.blockIdx + 1,
                               Append(cr.results, ResultBlock(block.id, result)),
                               tools,
                               IF result.success THEN counters
                               ELSE increment(counters, "tool_errors." \o block.name),
                               <<>>),
                            sessions, requests, now), o)

\* toolRegistry.register(executor), by the application
Register(executor) ==
  /\ registered < MaxRegistrations
  /\ registered' = registered + 1
  /\ tools' = register(tools, executor)
  /\ UNCHANGED <<sessions, requests, now, counters, config, calls, obs, env, retry,
                 caller>>

Sleeping(c) == calls[c].pc \in {"acquire_wait", "backoff"} /\ calls[c].wakeAt > now

\* Time passes. Past the bound it passes only while a timer is pending.
Tick ==
  /\ now < MaxTicks * TickMs \/ \E c \in Calls : Sleeping(c)
  /\ now' = now + TickMs
  /\ UNCHANGED <<sessions, tools, requests, counters, config, calls, obs,
                 registered, env, retry, caller>>

ToolResults ==
  UNION {ExecuteOutcomes(x, i) :
           x \in {SearchTool, FileTool} \cup CustomExecutors, i \in {"x", "q"}}

AllJitters ==
  UNION {Jitters(backoffDelay(a, baseDelayMs, maxDelayMs)) :
           a \in 1..MaxAttemptsBound + 1}

CallStep(c) ==
  \/ Wake(c)
  \/ AfterAcquire(c)
  \/ \E r \in Responses : Respond(c, r)
  \/ \E e \in UpstreamErrors, j \in AllJitters : Fail(c, e, j)
  \/ BackoffWake(c)
  \/ \E result \in ToolResults : ExecSettle(c, result)

Next ==
  \/ \E c \in Calls, k \in SessionIds, m \in UserMessages : Start(c, k, m)
  \/ \E c \in Calls : CallStep(c)
  \/ \E x \in CustomExecutors : Register(x)
  \/ Tick

Spec == Init /\ [][Next]_vars

(***************************************************************************)
(* Concurrent calls: the caller starts a processMessage while others are   *)
(* suspended at an await. Every upstream attempt and every tool execution  *)
(* settles, every timer fires: each call's continuations and the clock are *)
(* weakly fair.                                                            *)
(***************************************************************************)
ConcurrentConfigs ==
  {cf \in Configs : /\ cf.maxIterations <= ConcurrentIterations
                    /\ cf.maxRequests <= ConcurrentRequests}

InitConcurrent ==
  /\ Constructed
  /\ config \in ConcurrentConfigs
  /\ env = [concurrent |-> TRUE,
            responses |-> {FinalResponse, ToolUseResponse, OtherResponse},
            errors |-> {Err("", 429)}]
  /\ retry = IdleRetry
  /\ caller = IdleCaller

Fairness ==
  /\ \A c \in Calls : WF_vars(CallStep(c))
  /\ WF_vars(Tick)

SpecConcurrent == InitConcurrent /\ [][Next]_vars /\ Fairness


(***************************************************************************)
(* withRetry(fn, config) on its own, for any policy and any operation      *)
(***************************************************************************)
InitRetry ==
  /\ Constructed
  /\ config = [maxIterations |-> 0, maxRequests |-> 1, maxAttempts |-> 0]
  /\ env = [concurrent |-> FALSE, responses |-> {}, errors |-> {}]
  /\ \E policy \in Policies : retry = RetryState(policy)
  /\ caller = IdleCaller

\* lines 58-62: the loop test and the invocation of fn; line 87 when the test
\* fails
NextAttempt(r, attempt) ==
  IF AttemptAllowed(attempt, r.policy.maxAttempts)
  THEN [r EXCEPT !.pc = "calling", !.attempt = attempt, !.invoked = @ + 1]
  ELSE [r EXCEPT !.pc = "rejected", !.attempt = attempt, !.error = r.lastError]

\* withRetry is called
WithRetry ==
  /\ retry.pc = "ready"
  /\ retry' = NextAttempt(retry, 1)
  /\ UNCHANGED <<controller, caller>>

\* line 62: fn() resolves
OperationResolves(value) ==
  /\ retry.pc = "calling"
  /\ retry' = [retry EXCEPT !.pc = "resolved", !.result = value]
  /\ UNCHANGED <<controller, caller>>

\* lines 63-84: fn() rejects
OperationRejects(e, jitter) ==
  /\ retry.pc = "calling"
  /\ LET r == [retry EXCEPT !.lastError = recordError(@, e),
                            !.errors = Append(@, e)]
         delay == backoffDelay(r.attempt, r.policy.baseDelayMs, r.policy.maxDelayMs)
         decision == onAttemptFailed(r.attempt, r.policy.maxAttempts,
                                     r.policy.shouldRetry, e)
     IN /\ jitter \in Jitters(delay)
        /\ retry' = CASE decision = "throw" ->
                           [r EXCEPT !.pc = "rejected", !.error = e]
                      [] decision = "break" ->
                           [r EXCEPT !.pc = "rejected", !.error = r.lastError]
                      [] OTHER ->
                           [r EXCEPT !.pc = "sleeping",
                                     !.slept = Append(@, delay + jitter)]
  /\ UNCHANGED <<controller, caller>>

\* lines 83 and 60: the timeout has fired
RetryAfterDelay ==
  /\ retry.pc = "sleeping"
  /\ retry' = NextAttempt(retry, retry.attempt + 1)
  /\ UNCHANGED <<controller, caller>>

PolicyJitters ==
  UNION {Jitters(backoffDelay(a, p.baseDelayMs, p.maxDelayMs)) :
           a \in 1..MaxPolicyAttempts + 1, p \in Policies}

NextRetry ==
  \/ WithRetry
  \/ \E value \in {"ok"} : OperationResolves(value)
  \/ \E e \in RetryErrors, j \in PolicyJitters : OperationRejects(e, j)
  \/ RetryAfterDelay

SpecRetry == InitRetry /\ [][NextRetry]_vars

(***************************************************************************)
(* RateLimiter on its own: concurrent acquire() calls and getStats()       *)
(***************************************************************************)
InitLimiter ==
  /\ Constructed
  /\ config \in {cf \in Configs : cf.maxIterations = 0 /\ cf.maxAttempts = 0}
  /\ env = [concurrent |-> TRUE, responses |-> {}, errors |-> {}]
  /\ retry = IdleRetry
  /\ caller = IdleCaller

\* An acquire() call after acquire, lines 12-30, has run once with outcome r:
\* admitted, or suspended on the timeout
Evaluated(me, r, t) ==
  IF r.admitted
  THEN [me EXCEPT !.pc = "admitted", !.admittedAt = t]
  ELSE [me EXCEPT !.pc = "waiting", !.wakeAt = t + r.waitTime,
                  !.waits = Append(@, r.waitTime)]

\* acquire() is called
Acquire(a) ==
  /\ caller.acquirers[a].pc = "idle"
  /\ \A b \in Acquirers : b < a => caller.acquirers[b].pc # "idle"
  /\ LET r == acquire(requests, now, config.maxRequests)
     IN /\ requests' = r.requests
        /\ caller' = [caller EXCEPT
             !.issued = Append(@, a),
             !.acquirers[a] = Evaluated([@ EXCEPT !.issuedAt = now], r, now)]
  /\ UNCHANGED <<sessions, tools, now, counters, config, calls, obs,
                 registered, env, retry>>

\* lines 25-26: the timeout has fired, acquire runs again
AcquireWake(a) ==
  /\ caller.acquirers[a].pc = "waiting"
  /\ now >= caller.acquirers[a].wakeAt
  /\ LET r == acquire(requests, now, config.maxRequests)
     IN /\ requests' = r.requests
        /\ caller' = [caller EXCEPT !.acquirers[a] = Evaluated(@, r, now)]
  /\ UNCHANGED <<sessions, tools, now, counters, config, calls, obs,
                 registered, env, retry>>

\* getStats()
GetStats ==
  /\ LET g == getStats(requests, now, config.maxRequests)
     IN /\ requests' = g.requests
        /\ caller' = [caller EXCEPT !.stats = g.stats]
  /\ UNCHANGED <<sessions, tools, now, counters, config, calls, obs,
                 registered, env, retry>>

Suspended(a) ==
  caller.acquirers[a].pc = "waiting" /\ caller.acquirers[a].wakeAt > now

\* Time passes. Past the bound it passes only while a timeout is pending.
LimiterTick ==
  /\ now < MaxLimiterTicks * TickMs \/ \E a \in Acquirers : Suspended(a)
  /\ now' = now + TickMs
  /\ UNCHANGED <<sessions, tools, requests, counters, config, calls, obs,
                 registered, env, retry, caller>>

NextLimiter ==
  \/ \E a \in Acquirers : Acquire(a)
  \/ \E a \in Acquirers : AcquireWake(a)
  \/ GetStats
  \/ LimiterTick

\* Every timeout fires and time advances.
SpecLimiter ==
  /\ InitLimiter
  /\ [][NextLimiter]_vars
  /\ \A a \in Acquirers : WF_vars(AcquireWake(a))
  /\ WF_vars(LimiterTick)

\* new RateLimiter(0): the limiter constructed with maxRequests = 0
InitLimiterZero ==
  /\ Constructed
  /\ config = [maxIterations |-> 0, maxRequests |-> 0, maxAttempts |-> 0]
  /\ env = [concurrent |-> TRUE, responses |-> {}, errors |-> {}]
  /\ retry = IdleRetry
  /\ caller = IdleCaller

SpecLimiterZero ==
  /\ InitLimiterZero
  /\ [][NextLimiter]_vars
  /\ \A a \in Acquirers : WF_vars(AcquireWake(a))
  /\ WF_vars(LimiterTick)

(***************************************************************************)
(* StateManager on its own: create, addMessage and clear in any order      *)
(***************************************************************************)
Metadata == {"", "vip"}

StoreMessages ==
  {Message("user", StringContent("Hi")),
   Message("assistant", StringContent("Hello"))}

InitStore ==
  /\ Constructed
  /\ config = [maxIterations |-> 0, maxRequests |-> 1, maxAttempts |-> 0]
  /\ env = [concurrent |-> FALSE, responses |-> {}, errors |-> {}]
  /\ retry = IdleRetry
  /\ caller = IdleCaller

\* What the latest call was, on which key, the store before it and how it
\* ended
Op(name, sessionId, arg, thrown) ==
  [name |-> name, sessionId |-> sessionId, arg |-> arg, before |-> sessions,
   at |-> now, thrown |-> thrown]

Create(sessionId, metadata) ==
  /\ sessions' = create(sessions, sessionId, metadata, now)
  /\ caller' = [caller EXCEPT !.op = Op("create", sessionId, metadata, "")]
  /\ UNCHANGED <<tools, requests, now, counters, config, calls, obs,
                 registered, env, retry>>

AddMessage(sessionId, message) ==
  /\ Len(sessions[sessionId].messages) < MaxStoreTurns
  /\ LET r == addMessageOutcome(sessions, sessionId, message, now)
     IN /\ sessions' = r.sessions
        /\ caller' = [caller EXCEPT
                        !.op = Op("addMessage", sessionId, message, r.thrown)]
  /\ UNCHANGED <<tools, requests, now, counters, config, calls, obs,
                 registered, env, retry>>

Clear(sessionId) ==
  /\ sessions' = clear(sessions, sessionId)
  /\ caller' = [caller EXCEPT !.op = Op("clear", sessionId, "", "")]
  /\ UNCHANGED <<tools, requests, now, counters, config, calls, obs,
                 registered, env, retry>>

StoreTick ==
  /\ now < MaxStoreTicks * TickMs
  /\ now' = now + TickMs
  /\ UNCHANGED <<sessions, tools, requests, counters, config, calls, obs,
                 registered, env, retry, caller>>

NextStore ==
  \/ \E k \in SessionIds, md \in Metadata : Create(k, md)
  \/ \E k \in SessionIds, m \in StoreMessages : AddMessage(k, m)
  \/ \E k \in SessionIds : Clear(k)
  \/ StoreTick

SpecStore == InitStore /\ [][NextStore]_vars

(***************************************************************************)
(* ToolRegistry on its own: any sequence of register calls                 *)
(***************************************************************************)
RegistryExecutors ==
  {EchoTool, Executor("echo", 4), Executor("web_search", 5),
   Executor("calc", 6)}

RegistryNames == {"web_search", "write_file", "echo", "calc", "none"}

InitRegistry ==
  /\ Constructed
  /\ config = [maxIterations |-> 0, maxRequests |-> 1, maxAttempts |-> 0]
  /\ env = [concurrent |-> FALSE, responses |-> {}, errors |-> {}]
  /\ retry = IdleRetry
  /\ caller = [IdleCaller EXCEPT
                 !.op = [name |-> "register", log |-> <<SearchTool, FileTool>>]]

\* register(executor); log: every register call so far, the constructor's
\* two included
RegisterExecutor(executor) ==
  /\ Len(caller.op.log) < 2 + MaxRegistryCalls
  /\ tools' = register(tools, executor)
  /\ caller' = [caller EXCEPT !.op.log = Append(@, executor)]
  /\ UNCHANGED <<sessions, requests, now, counters, config, calls, obs,
                 registered, env, retry>>

NextRegistry == \E x \in RegistryExecutors : RegisterExecutor(x)

SpecRegistry == InitRegistry /\ [][NextRegistry]_vars

(***************************************************************************)
(* Claims about the processMessage loop                                    *)
(***************************************************************************)
Session(c) == sessions[calls[c].sessionId]
Turns(c) == Session(c).messages
UserTurn(c) == Message("user", StringContent(calls[c].userMessage))
AssistantTurn(content) == Message("assistant", BlocksContent(content))
IsToolResultTurn(m) ==
  /\ m.role = "user"
  /\ ~m.content.isString
  /\ \A j \in DOMAIN m.content.blocks : m.content.blocks[j].type = "tool_result"
HasToolUse(m) ==
  /\ m.role = "assistant"
  /\ \E j \in DOMAIN m.content.blocks : m.content.blocks[j].type = "tool_use"

\* No other call has used the session of call c.
SoleUser(c) == \A d \in Calls : d # c => calls[d].sessionId # calls[c].sessionId
\* No call started after call c uses its session.
LastUser(c) == \A d \in Calls : d > c => calls[d].sessionId # calls[c].sessionId

RECURSIVE FirstNonToolUse(_, _)
\* The position in rs, from i on, of the first response that is no tool-use
\* request; 0 if there is none.
FirstNonToolUse(rs, i) ==
  IF i > Len(rs) THEN 0
  ELSE IF rs[i].stop_reason # "tool_use" THEN i
  ELSE FirstNonToolUse(rs, i + 1)

RECURSIVE ToolUseIds(_, _)
\* The request identifiers of the tool_use blocks of content, from i on.
ToolUseIds(content, i) ==
  IF i > Len(content) THEN <<>>
  ELSE (IF content[i].type = "tool_use" THEN <<content[i].id>> ELSE <<>>)
         \o ToolUseIds(content, i + 1)

Mentions(message, word) == \E i \in DOMAIN message : message[i] = word

\* C1: in a call in which no upstream call fails, the number of loop
\* iterations, of rate-limiter admissions and of upstream calls is the
\* position of the first response that is not a tool-use request, or
\* maxIterations if there is none; it never exceeds maxIterations.
C1_IterationsFollowResponses ==
  \A c \in Calls :
    (Settled(c) /\ obs[c].lastFailure = NoFailure) =>
      LET first == FirstNonToolUse(obs[c].responses, 1)
          expected == IF first > 0 THEN first ELSE config.maxIterations
      IN /\ calls[c].iterations = expected
         /\ obs[c].admissions = expected
         /\ obs[c].upstreamCalls = expected
         /\ calls[c].iterations <= config.maxIterations

\* C3: on a fresh session, k tool-use responses and then a final answer leave
\* the user turn, k pairs (raw tool-request content, tool results) and the raw
\* final content: 2k+2 turns; the call has returned the text of the first
\* text block of the final response and calls the upstream no more.
C3_FreshSessionTranscript ==
  \A c \in Calls :
    LET rs == obs[c].responses
        n == Len(rs)
        msgs == Turns(c)
    IN (/\ calls[c].pc # "idle" /\ obs[c].fresh /\ SoleUser(c)
        /\ n >= 1 /\ rs[n].stop_reason = "end_turn"
        /\ \A i \in 1..(n - 1) : rs[i].stop_reason = "tool_use")
       =>
       /\ calls[c].pc = "returned"
       /\ \E i \in DOMAIN rs[n].content :
            /\ rs[n].content[i].type = "text"
            /\ \A j \in 1..(i - 1) : rs[n].content[j].type # "text"
            /\ calls[c].value = rs[n].content[i].text
       /\ Len(msgs) = 2 * (n - 1) + 2
       /\ msgs[1] = UserTurn(c)
       /\ \A j \in 1..(n - 1) :
            /\ msgs[2 * j] = AssistantTurn(rs[j].content)
            /\ IsToolResultTurn(msgs[2 * j + 1])
       /\ msgs[2 * n] = AssistantTurn(rs[n].content)
       /\ obs[c].lastFailure = NoFailure => obs[c].upstreamCalls = n

C3_Witness ==
  \E c \in Calls :
    /\ calls[c].pc = "returned" /\ obs[c].fresh /\ SoleUser(c)
    /\ Len(obs[c].responses) = 2
    /\ obs[c].responses[1].stop_reason = "tool_use"
    /\ obs[c].responses[2].stop_reason = "end_turn"
    /\ Len(Turns(c)) = 4
    /\ calls[c].value = "Hello"

\* C4: every tool-result turn directly follows an assistant turn and holds one
\* result block per tool_use block of that turn, in the order of the requests
\* and with their identifiers; every assistant turn with requests is followed
\* by its tool-result turn; the results collected during a dispatch are those
\* of the requests before the one being executed.
C4_ResultsMatchRequests ==
  /\ \A k \in SessionIds :
       LET msgs == sessions[k].messages
       IN \A i \in DOMAIN msgs :
            /\ (msgs[i].role = "user" /\ ~msgs[i].content.isString) =>
                 /\ i > 1
                 /\ msgs[i - 1].role = "assistant"
                 /\ LET ids == ToolUseIds(msgs[i - 1].content.blocks, 1)
                        rb == msgs[i].content.blocks
                    IN /\ Len(rb) = Len(ids)
                       /\ Len(ids) > 0
                       /\ \A j \in DOMAIN rb :
                            /\ rb[j].type = "tool_result"
                            /\ rb[j].tool_use_id = ids[j]
            /\ HasToolUse(msgs[i]) =>
                 /\ i < Len(msgs)
                 /\ msgs[i + 1].role = "user" /\ ~msgs[i + 1].content.isString
  /\ \A c \in Calls :
       calls[c].pc = "executing" =>
         LET ids == ToolUseIds(calls[c].response.content, 1)
             rb == calls[c].results
         IN /\ Len(rb) < Len(ids)
            /\ \A j \in DOMAIN rb : rb[j].tool_use_id = ids[j]
            /\ calls[c].response.content[calls[c].blockIdx].id = ids[Len(rb) + 1]

C4_Witness ==
  \E k \in SessionIds :
    \E i \in DOMAIN sessions[k].messages :
      /\ IsToolResultTurn(sessions[k].messages[i])
      /\ Len(sessions[k].messages[i].content.blocks) = 2
      /\ sessions[k].messages[i].content.blocks[1].is_error
      /\ ~sessions[k].messages[i].content.blocks[2].is_error

\* The turns of the session of call c that iteration `it` appended: the
\* assistant turn at ToolTurnAt - 1, the tool-result turn at ToolTurnAt.
ToolTurnAt(c, it) == Len(obs[c].prior) + 1 + 2 * it
\* Iteration `it` of call c got a tool-use response and appended its turns.
ToolTurnsAppended(c, it) ==
  \/ it < calls[c].iterations
  \/ it = calls[c].iterations /\ calls[c].pc = "returned"

\* C5: a tool_use block that names a tool unregistered at dispatch yields a
\* result block with is_error and a message that mentions the name; no
\* execute is invoked for the block; the dispatch goes on to the remaining
\* tool_use blocks of the response.
C5_UnknownToolIsReported ==
  \A c \in Calls :
    \A k \in DOMAIN obs[c].dispatched :
      LET d == obs[c].dispatched[k]
          content == obs[c].responses[d.iteration].content
          IsItsError(block) ==
            /\ block.type = "tool_result"
            /\ block.tool_use_id = d.id
            /\ block.is_error
            /\ Mentions(block.content, d.name)
      IN ~d.found =>
           /\ \A e \in DOMAIN obs[c].executions :
                ~(obs[c].executions[e].iteration = d.iteration
                    /\ obs[c].executions[e].idx = d.idx)
           /\ (calls[c].pc = "executing" /\ calls[c].iterations = d.iteration) =>
                \E j \in DOMAIN calls[c].results : IsItsError(calls[c].results[j])
           /\ (ToolTurnsAppended(c, d.iteration) /\ LastUser(c)) =>
                \E j \in DOMAIN Turns(c)[ToolTurnAt(c, d.iteration)].content.blocks :
                  IsItsError(Turns(c)[ToolTurnAt(c, d.iteration)].content.blocks[j])
           /\ \A i \in DOMAIN content :
                (i > d.idx /\ content[i].type = "tool_use") =>
                  \E k2 \in DOMAIN obs[c].dispatched :
                    /\ obs[c].dispatched[k2].iteration = d.iteration
                    /\ obs[c].dispatched[k2].idx = i

C5_Witness ==
  \E c \in Calls :
    /\ calls[c].pc = "executing"
    /\ \E k \in DOMAIN obs[c].dispatched :
         /\ ~obs[c].dispatched[k].found
         /\ obs[c].dispatched[k].iteration = calls[c].iterations
         /\ obs[c].dispatched[k].idx < calls[c].blockIdx
    /\ Len(calls[c].results) = 1

\* C6: no fault of a tool execution makes processMessage reject: each fault,
\* a ToolResult with success=false as well as a rejected execute, becomes an
\* is_error block with the error message, and the loop goes on.
C6_ToolFaultsNeverReject ==
  \A c \in Calls :
    /\ calls[c].pc = "rejected" =>
         \A k \in DOMAIN obs[c].faults :
           calls[c].error # Err(obs[c].faults[k].error, 0)
    /\ \A k \in DOMAIN obs[c].faults :
         LET f == obs[c].faults[k]
             IsItsError(block) ==
               /\ block.type = "tool_result"
               /\ block.tool_use_id = f.id
               /\ block.is_error
               /\ Mentions(block.content, f.error)
         IN /\ (calls[c].pc = "executing" /\ calls[c].iterations = f.iteration) =>
                 \E j \in DOMAIN calls[c].results : IsItsError(calls[c].results[j])
            /\ (ToolTurnsAppended(c, f.iteration) /\ LastUser(c)) =>
                 \E j \in DOMAIN Turns(c)[ToolTurnAt(c, f.iteration)].content.blocks :
                   IsItsError(Turns(c)[ToolTurnAt(c, f.iteration)].content.blocks[j])

\* The turns a call has appended before its upstream call of iteration i:
\* what the session held, the user turn, and the pairs of iterations 1..i-1.
IsHistoryBefore(c, h, i) ==
  /\ Len(h) = Len(obs[c].prior) + 1 + 2 * (i - 1)
  /\ SubSeq(h, 1, Len(obs[c].prior)) = obs[c].prior
  /\ h[Len(obs[c].prior) + 1] = UserTurn(c)
  /\ \A j \in 1..(i - 1) :
       /\ h[Len(obs[c].prior) + 2 * j] = AssistantTurn(obs[c].responses[j].content)
       /\ IsToolResultTurn(h[Len(obs[c].prior) + 2 * j + 1])

Terminal(f) == ~isRetryableError(f.error) \/ f.attempt = config.maxAttempts

\* C7: an upstream call of iteration i that fails with a non-retryable error,
\* or with a retryable error on the last permitted attempt, makes
\* processMessage reject with that error (a call backs off only after a
\* retryable failure before the last attempt), and the session then holds
\* what it held when the failing call was issued: the user turn and the turn
\* pairs of iterations 1..i-1.
C7_UpstreamFailurePropagates ==
  \A c \in Calls :
    LET f == obs[c].lastFailure
    IN /\ calls[c].pc = "backoff" => (f # NoFailure /\ ~Terminal(f))
       /\ (calls[c].pc = "rejected" /\ calls[c].error \in UpstreamErrors) =>
            /\ Terminal(f)
            /\ calls[c].error = f.error
            /\ IsHistoryBefore(c, obs[c].issuedWith, calls[c].iterations)
            /\ LastUser(c) => Turns(c) = obs[c].issuedWith
       /\ (calls[c].pc \in {"inflight", "backoff"} /\ LastUser(c)) =>
            /\ Turns(c) = obs[c].issuedWith
            /\ IsHistoryBefore(c, Turns(c), calls[c].iterations)

C7_Witness ==
  \E c \in Calls :
    /\ calls[c].pc = "rejected"
    /\ calls[c].iterations = 2
    /\ isRetryableError(calls[c].error)
    /\ obs[c].lastFailure.attempt = 2
    /\ Len(Turns(c)) = 3

\* C8: a call increments max_iterations_reached, once, when its loop ended
\* because iterations reached maxIterations with no final answer; a call
\* whose loop ended with a final answer, on any iteration up to and including
\* maxIterations, does not increment it.
C8_ExhaustionCounter ==
  \A c \in Calls :
    calls[c].pc = "returned" =>
      LET rs == obs[c].responses
          n == Len(rs)
      IN /\ obs[c].capIncrements <= 1
         /\ calls[c].iterations < config.maxIterations => obs[c].capIncrements = 0
         /\ (n > 0 /\ rs[n].stop_reason = "end_turn") => obs[c].capIncrements = 0
         /\ (calls[c].iterations = config.maxIterations
               /\ \A i \in DOMAIN rs : rs[i].stop_reason = "tool_use") =>
              /\ obs[c].capIncrements = 1
              /\ calls[c].value = ""


(***************************************************************************)
(* Claims about withRetry                                                  *)
(***************************************************************************)
\* An error the policy lets withRetry retry
Retryable(policy, error) == ~RefusesRetry(policy.shouldRetry, error)

AllRetryable(r) ==
  \A k \in 1..Len(r.errors) : Retryable(r.policy, r.errors[k])

\* C9: withRetry invokes the operation at most maxAttempts times; an
\* operation that always fails with a retryable error is invoked exactly
\* maxAttempts times and then withRetry rejects; an operation whose first
\* failure is non-retryable is invoked exactly once; a success is returned
\* at once, with no invocation after it.
C9_InvocationCounts ==
  /\ retry.invoked <= retry.policy.maxAttempts
  /\ (retry.pc = "rejected" /\ AllRetryable(retry))
       => retry.invoked = retry.policy.maxAttempts
  /\ (retry.pc # "ready" /\ AllRetryable(retry)
        /\ Len(retry.errors) = retry.policy.maxAttempts)
       => retry.pc = "rejected"
  /\ (retry.errors # <<>> /\ ~Retryable(retry.policy, retry.errors[1]))
       => (retry.pc = "rejected" /\ retry.invoked = 1)
  /\ retry.pc = "resolved"
       => (retry.result = "ok" /\ retry.invoked = Len(retry.errors) + 1)

C9_Witness ==
  /\ retry.pc = "rejected"
  /\ retry.policy.maxAttempts = MaxPolicyAttempts
  /\ retry.invoked = MaxPolicyAttempts
  /\ AllRetryable(retry)

\* C10: when withRetry rejects, it rejects with the error of the most recent
\* failed invocation, maxAttempts = 0 included.
C10_RejectsWithLastError ==
  retry.pc = "rejected"
    => (retry.errors # <<>> /\ retry.error = retry.errors[Len(retry.errors)])


(***************************************************************************)
(* Claims about termination                                                *)
(***************************************************************************)
Started(c) == calls[c].pc # "idle"

\* The ways the loop of processMessage ends according to the specification
EndsOnFinalAnswer(c) ==
  /\ calls[c].pc = "returned"
  /\ obs[c].responses # <<>>
  /\ obs[c].responses[Len(obs[c].responses)].stop_reason = "end_turn"

EndsOnIterationCap(c) ==
  /\ calls[c].pc = "returned"
  /\ calls[c].iterations >= config.maxIterations

EndsOnUnrecognizedStop(c) ==
  /\ calls[c].pc = "returned"
  /\ obs[c].responses # <<>>
  /\ obs[c].responses[Len(obs[c].responses)].stop_reason
       \notin {"end_turn", "tool_use"}

EndsOnUpstreamFailure(c) ==
  /\ calls[c].pc = "rejected"
  /\ obs[c].lastFailure # NoFailure
  /\ calls[c].error = obs[c].lastFailure.error

\* Every started call settles.
EveryCallSettles == \A c \in Calls : Started(c) ~> Settled(c)

\* C2: every processMessage call among concurrently running calls eventually
\* returns a string or rejects (maxRequests >= 1, time advances, upstream
\* attempts and tool executions settle), and the loop ends on a final
\* answer, on the iteration cap, on an unrecognized stop condition or on an
\* upstream failure.
C2_EveryCallTerminates ==
  /\ EveryCallSettles
  /\ [](\A c \in Calls :
          Settled(c) => \/ EndsOnFinalAnswer(c)
                        \/ EndsOnIterationCap(c)
                        \/ EndsOnUnrecognizedStop(c)
                        \/ EndsOnUpstreamFailure(c))


(***************************************************************************)
(* Claims about the RateLimiter                                            *)
(***************************************************************************)
\* The recorded admissions inside the window that ends now
InWindow(reqs, t) ==
  Cardinality({i \in DOMAIN reqs : t - reqs[i] < windowMs /\ reqs[i] <= t})

\* C11: with maxRequests >= 1, under any interleaving of concurrent
\* acquire() calls, at most maxRequests recorded timestamps lie within the
\* window, and getStats().current never exceeds getStats().max.
C11_WindowNeverOverfull ==
  /\ \A t \in {now} \cup {requests[i] + windowMs - 1 : i \in DOMAIN requests} :
       InWindow(requests, t) <= config.maxRequests
  /\ caller.stats.current <= caller.stats.max

\* All of maxRequests + 2 callers have called acquire, the window is full,
\* one is suspended and getStats has reported a full window.
C11_Witness ==
  /\ InWindow(requests, now) = config.maxRequests
  /\ caller.stats.current = config.maxRequests
  /\ \E a \in Acquirers : Suspended(a)
  /\ \E a \in Acquirers :
       caller.acquirers[a].pc = "admitted" /\ Len(caller.acquirers[a].waits) > 0

\* The acquire() calls issued so far are at most maxRequests + 1, all within
\* less than a window of the first.
BackToBack ==
  /\ Len(caller.issued) <= config.maxRequests + 1
  /\ \A k \in DOMAIN caller.issued :
       caller.acquirers[caller.issued[k]].issuedAt
         - caller.acquirers[caller.issued[1]].issuedAt < windowMs

Recorded(t) == \E i \in DOMAIN requests : requests[i] = t

\* The k-th acquire() call issued
Issued(k) == caller.acquirers[caller.issued[k]]

\* C12: of maxRequests + 1 acquire() calls issued back-to-back, the first
\* maxRequests are admitted without suspension; the last is suspended once,
\* for more than 0 and at most windowMs, and is then admitted, its timestamp
\* recorded.
C12_LastCallerIsDelayed ==
  /\ [](BackToBack =>
          \A k \in DOMAIN caller.issued :
            /\ k <= config.maxRequests =>
                 /\ Issued(k).pc = "admitted"
                 /\ Issued(k).waits = <<>>
                 /\ Issued(k).admittedAt = Issued(k).issuedAt
            /\ k = config.maxRequests + 1 =>
                 /\ Len(Issued(k).waits) = 1
                 /\ Issued(k).waits[1] > 0
                 /\ Issued(k).waits[1] <= windowMs
                 /\ Issued(k).pc = "admitted" =>
                      /\ Issued(k).admittedAt
                           >= Issued(k).issuedAt + Issued(k).waits[1]
                      /\ now - Issued(k).admittedAt < windowMs
                           => Recorded(Issued(k).admittedAt))
  /\ \A a \in Acquirers :
       (BackToBack /\ caller.acquirers[a].pc = "waiting")
         ~> (caller.acquirers[a].pc = "admitted" \/ ~BackToBack)

C12_Witness ==
  /\ BackToBack
  /\ Len(caller.issued) = config.maxRequests + 1
  /\ config.maxRequests = MaxRequestsBound
  /\ Issued(1).issuedAt < Issued(config.maxRequests + 1).issuedAt
  /\ Issued(config.maxRequests + 1).pc = "admitted"
  /\ Recorded(Issued(config.maxRequests + 1).admittedAt)

\* The upstream requests of all calls sent within the window that ends at t
SentInWindow(t) ==
  {<<c, i>> \in Calls \X (1..(MaxIterationsBound * MaxAttemptsBound)) :
     /\ i <= Len(obs[c].sentAt)
     /\ obs[c].sentAt[i] <= t
     /\ t - obs[c].sentAt[i] < windowMs}

\* C13: across all concurrent processMessage calls, the requests sent to the
\* upstream within any window of 60,000 ms, every attempt of the retry
\* executor counted, never exceed the configured limit (maxRequests >= 1).
C13_UpstreamRequestsWithinLimit ==
  Cardinality(SentInWindow(now)) <= config.maxRequests

(***************************************************************************)
(* Claims about the StateManager                                           *)
(***************************************************************************)
\* C14: create(sessionKey, metadata) on a key that already has a session is
\* idempotent: the session's turns, metadata and creation timestamp are what
\* they were before the call, and the store holds one session for the key.
C14_CreateIsIdempotent ==
  (caller.op.name = "create" /\ caller.op.before[caller.op.sessionId].exists)
    => /\ sessions[caller.op.sessionId] = caller.op.before[caller.op.sessionId]
       /\ caller.op.sessionId \in getAllSessions(sessions)

\* C15: addMessage on a key with no session throws session-not-found and
\* leaves the store unchanged; on an existing key it makes the turn the last
\* of the session, keeps the earlier turns in order, sets updated_at to a
\* value >= the previous one and changes no other session.
C15_AppendTurn ==
  caller.op.name = "addMessage" =>
    LET k == caller.op.sessionId
        before == caller.op.before
    IN /\ ~before[k].exists =>
            /\ caller.op.thrown = "Session not found"
            /\ sessions = before
       /\ before[k].exists =>
            /\ caller.op.thrown = ""
            /\ sessions[k].messages = Append(before[k].messages, caller.op.arg)
            /\ sessions[k].updated_at >= before[k].updated_at
            /\ sessions[k].exists
            /\ \A j \in SessionIds \ {k} : sessions[j] = before[j]

C15_Witness ==
  /\ caller.op.name = "addMessage"
  /\ caller.op.before[caller.op.sessionId].exists
  /\ caller.op.before[caller.op.sessionId].messages # <<>>
  /\ caller.op.before[caller.op.sessionId].messages[1] # caller.op.arg
  /\ sessions[caller.op.sessionId].updated_at
       > caller.op.before[caller.op.sessionId].updated_at
  /\ \E j \in SessionIds \ {caller.op.sessionId} : sessions[j].messages # <<>>

(***************************************************************************)
(* Claims about the ToolRegistry                                           *)
(***************************************************************************)
RegisteredNames == {caller.op.log[i].name : i \in DOMAIN caller.op.log}

\* The executor of the latest register call under the name
LatestRegistered(toolName) ==
  caller.op.log[CHOOSE i \in DOMAIN caller.op.log :
                  /\ caller.op.log[i].name = toolName
                  /\ \A j \in DOMAIN caller.op.log :
                       caller.op.log[j].name = toolName => j <= i]

\* C16: after any sequence of register calls the catalog holds exactly one
\* definition per distinct registered name, getExecutor(name) returns the
\* executor registered last under the name, and has(name) is true exactly
\* for the registered names.
C16_OneExecutorPerName ==
  LET catalog == getAllDefinitions(tools)
  IN /\ {catalog[i] : i \in DOMAIN catalog} = RegisteredNames
     /\ Len(catalog) = Cardinality(RegisteredNames)
     /\ \A n \in RegisteredNames : getExecutor(tools, n) = LatestRegistered(n)
     /\ \A n \in RegistryNames : has(tools, n) <=> n \in RegisteredNames
     /\ \A n \in RegistryNames \ RegisteredNames :
          getExecutor(tools, n) = NoExecutor

\* A name registered three times, a default tool replaced, a new name added.
C16_Witness ==
  /\ Cardinality({i \in DOMAIN caller.op.log : caller.op.log[i].name = "echo"}) >= 3
  /\ getExecutor(tools, "echo") = Executor("echo", 4)
  /\ getExecutor(tools, "web_search") = Executor("web_search", 5)
  /\ ~has(tools, "calc")

(***************************************************************************)
(* Claims about the history of a session                                   *)
(***************************************************************************)
\* The turns call d appended after its user turn: two for every tool-use
\* response whose dispatch completed, one for a final answer.
AppendedBy(d) ==
  LET rs == obs[d].responses
      Threw(j) == \E k \in DOMAIN obs[d].faults :
                    /\ obs[d].faults[k].iteration = j
                    /\ obs[d].faults[k].kind = "throw"
  IN 2 * Cardinality({j \in DOMAIN rs :
                        rs[j].stop_reason = "tool_use" /\ ~Threw(j)})
       + Cardinality({j \in DOMAIN rs : rs[j].stop_reason = "end_turn"})

\* Call d is the latest call before call c on the session of call c.
Precedes(d, c) ==
  /\ d < c
  /\ calls[d].sessionId = calls[c].sessionId
  /\ \A e \in Calls : (d < e /\ e < c) => calls[e].sessionId # calls[c].sessionId

\* C17: every upstream call of processMessage is passed the session's
\* complete turn history of that moment: the turns of earlier calls on the
\* key, then the call's user turn and the assistant and tool-result turns it
\* has appended so far, in order.
C17_UpstreamGetsFullHistory ==
  \A c \in Calls :
    calls[c].pc = "inflight" =>
      /\ obs[c].issuedWith = Turns(c)
      /\ IsHistoryBefore(c, obs[c].issuedWith, calls[c].iterations)
      /\ \A d \in Calls :
           Precedes(d, c) =>
             /\ Len(obs[c].prior) = Len(obs[d].prior) + 1 + AppendedBy(d)
             /\ SubSeq(obs[c].prior, 1, Len(obs[d].prior)) = obs[d].prior
             /\ obs[c].prior[Len(obs[d].prior) + 1] = UserTurn(d)
      /\ (\A d \in Calls : ~Precedes(d, c)) => obs[c].prior = <<>>

C17_Witness ==
  \E c \in Calls :
    /\ calls[c].pc = "inflight"
    /\ calls[c].iterations = 2
    /\ calls[c].attempt = 2
    /\ \E d \in Calls : Precedes(d, c) /\ Len(obs[c].prior) = 4
    /\ Len(obs[c].issuedWith) = 7

\* The call on its own, replayed from the responses and tool results it got.
Threw(c, j) ==
  \E k \in DOMAIN obs[c].faults :
    obs[c].faults[k].iteration = j /\ obs[c].faults[k].kind = "throw"

SoloBlock(c, j, i) ==
  LET d == obs[c].dispatched[CHOOSE k \in DOMAIN obs[c].dispatched :
                               /\ obs[c].dispatched[k].iteration = j
                               /\ obs[c].dispatched[k].idx = i]
  IN IF ~d.found THEN NotFoundBlock(d.id, d.name)
     ELSE ResultBlock(d.id,
            obs[c].settled[CHOOSE k \in DOMAIN obs[c].settled :
                             /\ obs[c].settled[k].iteration = j
                             /\ obs[c].settled[k].idx = i].result)

RECURSIVE SoloResults(_, _, _)
SoloResults(c, j, i) ==
  LET content == obs[c].responses[j].content
  IN IF i > Len(content) THEN <<>>
     ELSE (IF content[i].type = "tool_use" THEN <<SoloBlock(c, j, i)>> ELSE <<>>)
            \o SoloResults(c, j, i + 1)

RECURSIVE SoloTurns(_, _)
SoloTurns(c, j) ==
  LET rs == obs[c].responses
  IN IF j > Len(rs) THEN <<>>
     ELSE IF rs[j].stop_reason = "end_turn" THEN <<AssistantTurn(rs[j].content)>>
     ELSE IF rs[j].stop_reason = "tool_use" /\ ~Threw(c, j)
     THEN <<AssistantTurn(rs[j].content),
            Message("user", BlocksContent(SoloResults(c, j, 1)))>>
            \o SoloTurns(c, j + 1)
     ELSE <<>>

SoloHistory(c) == <<UserTurn(c)>> \o SoloTurns(c, 1)

SoloValue(c) ==
  LET rs == obs[c].responses
  IN IF rs # <<>> /\ rs[Len(rs)].stop_reason = "end_turn"
     THEN ExtractText(rs[Len(rs)].content, "") ELSE ""

\* C18: under any interleaving of concurrent calls on different session keys
\* each session holds only the turns of the call on its key, and the call's
\* final history and return value are those of the call run alone with the
\* same upstream responses and tool results.
C18_DifferentKeysAreIndependent ==
  \A c \in Calls :
    (Settled(c) /\ SoleUser(c)) =>
      /\ Turns(c) = SoloHistory(c)
      /\ calls[c].pc = "returned" => calls[c].value = SoloValue(c)

\* The later call has returned while the earlier one, on another key, is
\* still executing a tool; both got tool-use requests.
C18_Witness ==
  \E c, d \in Calls :
    /\ c < d
    /\ calls[c].pc = "executing"
    /\ calls[d].pc = "returned" /\ SoleUser(d)
    /\ calls[d].sessionId # calls[c].sessionId
    /\ Len(Turns(d)) = 3
    /\ Len(Turns(c)) = 1

\* C19: the assistant turn carrying the tool-use requests is appended before
\* the first requested tool is dispatched: while a tool of the response is
\* executing, the session's last turn is that assistant turn.
C19_RequestsAppendedBeforeDispatch ==
  \A c \in Calls :
    calls[c].pc = "executing" =>
      /\ Turns(c) # <<>>
      /\ Turns(c)[Len(Turns(c))] = AssistantTurn(calls[c].response.content)

\* The tool-result turn m answers the requests of the assistant turn a.
Answers(m, a) ==
  /\ IsToolResultTurn(m)
  /\ HasToolUse(a)
  /\ Len(m.content.blocks) = Len(ToolUseIds(a.content.blocks, 1))
  /\ \A j \in DOMAIN m.content.blocks :
       m.content.blocks[j].tool_use_id = ToolUseIds(a.content.blocks, 1)[j]

\* C20: in every reachable state, concurrent calls on one session key
\* included, a tool-result turn immediately follows the assistant turn whose
\* requests it answers, and every assistant turn with tool-use requests is
\* immediately followed by its tool-result turn: no turn of another call
\* comes between the two.
C20_ToolTurnsAreAdjacent ==
  \A k \in SessionIds :
    LET msgs == sessions[k].messages
    IN \A i \in DOMAIN msgs :
         /\ IsToolResultTurn(msgs[i]) => (i > 1 /\ Answers(msgs[i], msgs[i - 1]))
         /\ HasToolUse(msgs[i]) => (i < Len(msgs) /\ Answers(msgs[i + 1], msgs[i]))

\* Two calls run concurrently on one key: both user turns came first, then
\* the two pairs.
C20_Witness ==
  \E k \in SessionIds :
    LET msgs == sessions[k].messages
    IN /\ Len(msgs) = 6
       /\ msgs[1].role = "user" /\ msgs[1].content.isString
       /\ msgs[2].role = "user" /\ msgs[2].content.isString
       /\ HasToolUse(msgs[3]) /\ IsToolResultTurn(msgs[4])
       /\ HasToolUse(msgs[5]) /\ IsToolResultTurn(msgs[6])

(***************************************************************************)
(* Claims about the order of the steps of one call                         *)
(***************************************************************************)
\* The executions of call c that have rejected
Throws(c) ==
  Cardinality({k \in DOMAIN obs[c].faults : obs[c].faults[k].kind = "throw"})

\* Execution x was requested before execution y.
RequestedBefore(x, y) ==
  \/ x.iteration < y.iteration
  \/ x.iteration = y.iteration /\ x.idx < y.idx

\* Call c is issuing, or waiting to issue, an upstream call.
AtUpstreamCall(c) ==
  calls[c].pc \in {"acquire_wait", "acquired", "inflight", "backoff"}

IsUnexpectedStop(r) == r.stop_reason \notin {"end_turn", "tool_use"}

\* C22: a response whose stop reason is neither end_turn nor tool_use ends
\* the loop at once without failing: it is the last response of the call, no
\* tool is dispatched or executed for it, no turn is appended for it, and the
\* call returns the accumulated text, which is the empty string.
C22_UnexpectedStopReturns ==
  \A c \in Calls :
    LET rs == obs[c].responses
        n == Len(rs)
    IN /\ \A j \in 1..(n - 1) : ~IsUnexpectedStop(rs[j])
       /\ (n > 0 /\ IsUnexpectedStop(rs[n])) =>
            /\ calls[c].pc = "returned"
            /\ calls[c].value = ""
            /\ calls[c].iterations = n
            /\ \A k \in DOMAIN obs[c].dispatched : obs[c].dispatched[k].iteration < n
            /\ \A k \in DOMAIN obs[c].executions : obs[c].executions[k].iteration < n
            /\ LastUser(c) => IsHistoryBefore(c, Turns(c), n)

C22_Witness ==
  \E c \in Calls :
    /\ Len(obs[c].responses) = 2
    /\ obs[c].responses[1].stop_reason = "tool_use"
    /\ IsUnexpectedStop(obs[c].responses[2])
    /\ calls[c].pc = "returned"
    /\ LastUser(c)
    /\ Len(Turns(c)) = Len(obs[c].prior) + 3

(***************************************************************************)
(* Claims about a limiter of zero requests                                 *)
(***************************************************************************)
\* C23: with maxRequests = 0 no acquire() call ever returns and no admission
\* timestamp is ever recorded.
C23_ZeroLimitNeverAdmits ==
  config.maxRequests = 0 =>
    /\ requests = <<>>
    /\ \A a \in Acquirers : caller.acquirers[a].pc # "admitted"

(***************************************************************************)
(* Claims about the suspensions of withRetry                               *)
(***************************************************************************)
\* d(a) of the policy in force
ClaimedDelay(a) ==
  LET exponential == retry.policy.baseDelayMs * Pow2(a - 1)
  IN IF exponential < retry.policy.maxDelayMs THEN exponential
     ELSE retry.policy.maxDelayMs

\* The failed attempts after which withRetry goes on
Retried ==
  {a \in DOMAIN retry.errors :
     /\ a < retry.policy.maxAttempts
     /\ ~RefusesRetry(retry.policy.shouldRetry, retry.errors[a])}

\* C24: the suspension after failed attempt a lasts at least
\* d(a) = min(baseDelayMs * 2^(a-1), maxDelayMs) and at most 1.3 * d(a); d is
\* non-decreasing and never above maxDelayMs; and withRetry suspends after
\* exactly the failures that are retryable and not of the last attempt.
C24_BackoffBounds ==
  /\ \A a \in DOMAIN retry.slept :
       /\ retry.slept[a] >= ClaimedDelay(a)
       /\ 10 * retry.slept[a] <= 13 * ClaimedDelay(a)
  /\ \A a \in 1..MaxPolicyAttempts :
       /\ ClaimedDelay(a) <= ClaimedDelay(a + 1)
       /\ ClaimedDelay(a) <= retry.policy.maxDelayMs
  /\ DOMAIN retry.slept = Retried
  /\ retry.pc = "sleeping" => Len(retry.slept) = retry.attempt

C24_Witness ==
  /\ retry.pc = "rejected"
  /\ Len(retry.errors) = 3
  /\ Len(retry.slept) = 2
  /\ retry.slept[1] = retry.policy.baseDelayMs
  /\ ClaimedDelay(2) = retry.policy.maxDelayMs
  /\ retry.slept[2] > retry.policy.maxDelayMs

(***************************************************************************)
(* Claims about the roles of a session's turns                             *)
(***************************************************************************)
\* C25: after any sequence of processMessage calls issued one after another,
\* the roles of a session's turns alternate user, assistant, user, ...,
\* starting with user: no two consecutive turns have the same role.
C25_RolesAlternate ==
  \A k \in SessionIds :
    get(sessions, k) =>
      \A i \in DOMAIN sessions[k].messages :
        sessions[k].messages[i].role = (IF i % 2 = 1 THEN "user" ELSE "assistant")
====
